---- MODULE Spec2Model ----
(***************************************************************************)
(* Model of the page-flip state machine of src/script.py (class BookAlbum  *)
(* with its FlipState record): keyboard flips, mouse drag, spring release, *)
(* autoplay timer and the per-frame update(dt).                            *)
(*                                                                         *)
(* Floats (FlipState.t, FlipState.vel, _autoplay_timer, dt) are kept as    *)
(* fixed-point integers in multiples of 1/Unit, every product rounded to   *)
(* the nearest multiple as IEEE arithmetic rounds to the nearest double.   *)
(***************************************************************************)
EXTENDS Integers, Sequences, FiniteSets, TLC

\* ---------------------------------------------------------------- bounds
\* Largest number of page files of the album (pages holds 0..MaxPages paths).
MaxPages == 4
\* |t| beyond TCap (in whole turns) stands for a spring that has run away:
\* in the program its floats grow on to inf and then nan, which no further
\* update changes and for which the completion test is false.
TCap == 8
ProgressSteps == 20

\* ---------------------------------------------------------- fixed point
Unit == 60 * 1000

\* x / d rounded to the nearest integer (d > 0)
RoundDiv(x, d) == (2 * x + d) \div (2 * d)

Abs(x) == IF x < 0 THEN -x ELSE x

\* ------------------------------------------------------------ constants
WINDOW_W == 1200
WINDOW_H == 720
BOOK_MARGIN == 60
SPINE_W == 18
PAGE_GAP == 2
FPS == 60
\* FLIP_SPEED = 10.0, used only as FLIP_SPEED / 10.0
FLIP_SPEED == 10
\* DRAG_SPRING = 22.0
DRAG_SPRING == 22
\* DRAG_DAMP = 0.86, as DRAG_DAMP_NUM / DRAG_DAMP_DEN
DRAG_DAMP_NUM == 86
DRAG_DAMP_DEN == 100
\* width of the drag hot zone at a page's outer edge
HOT_ZONE == 80
\* self.autoplay_interval = 2.2
autoplay_interval == (22 * Unit) \div 10
\* completion thresholds of the spring: 0.002 and 0.01
SPRING_EPS_T == (2 * Unit) \div 1000
SPRING_EPS_V == Unit \div 100

\* ------------------------------------------------------------- geometry
Rect(x, y, w, h) == [x |-> x, y |-> y, w |-> w, h |-> h]
RectLeft(r) == r.x
RectRight(r) == r.x + r.w
\* pygame.Rect.inflate(dx, dy): grows around the centre
Inflate(r, dx, dy) == Rect(r.x - dx \div 2, r.y - dy \div 2, r.w + dx, r.h + dy)
\* pygame.Rect.collidepoint: left/top inclusive, right/bottom exclusive
collidepoint(r, px, py) ==
    /\ r.x <= px /\ px < r.x + r.w
    /\ r.y <= py /\ py < r.y + r.h

book_rect == Rect(BOOK_MARGIN, BOOK_MARGIN, WINDOW_W - 2 * BOOK_MARGIN, WINDOW_H - 2 * BOOK_MARGIN)
spread_rect == Inflate(book_rect, -40, -40)
spine_x == spread_rect.x + spread_rect.w \div 2
page_w == (spread_rect.w - SPINE_W - PAGE_GAP * 2) \div 2
page_h == spread_rect.h
left_rect == Rect(spread_rect.x, spread_rect.y, page_w, page_h)
right_rect == Rect(spine_x + SPINE_W \div 2 + PAGE_GAP, spread_rect.y, page_w, page_h)

\* ---------------------------------------------------------------- inputs
\* Frame steps dt = num/den seconds handed to update(dt): the nominal frame
\* 1/FPS, a frame that took twice as long, and a stalled frame of half a second.
DTs == {<<1, FPS>>, <<2, FPS>>, <<1, 2>>}
\* Frame steps under which the autoplay key is pressed: the 2.2 s interval is
\* then 5 ticks long, which keeps the timer's values times the positions of a
\* running flip small.
AutoplayDTs == {<<1, 2>>}
\* Pointer positions <<x, y>> of a button press: the right hot zone (1080),
\* the same x above the pages (y = 40), the right page outside the hot zone
\* (800, and 1040 on the zone's boundary), the left hot zone (100), the left
\* page outside it (400, and 160 on the zone's boundary).
DownPoints == {<<1080, 300>>, <<1080, 40>>, <<800, 300>>, <<1040, 300>>,
               <<100, 300>>, <<400, 300>>, <<160, 300>>}
\* Pointer x positions read by update while dragging: left of the pages (0),
\* left hot zone (100), the spine (600), right hot zone (1080).
MoveXs == {0, 100, 600, 1080}
Directions == {1, -1}

VARIABLES
    pages,            \* BookAlbum.pages: the list of page paths
    index,            \* BookAlbum.index
    flip,             \* BookAlbum.flip: the FlipState record
    drag_commit,      \* BookAlbum._drag_commit: "absent" | "commit" | "cancel"
    autoplay,         \* BookAlbum.autoplay
    autoplay_timer,   \* BookAlbum._autoplay_timer
    dt,               \* the frame step of this run, <<num, den>>
    last,             \* the handler that ran last: its arguments and the mode it ran in
    cache,            \* PageCache.cache: (path, page_size) -> surface
    loads,            \* per path, how often load_and_process_image was called
    frame,            \* what the last draw_flip call requested and drew
    probe             \* leaf width at the last two progress values tried

svars == <<pages, index, flip, drag_commit, autoplay, autoplay_timer, dt, last>>
dvars == <<cache, loads, frame, probe>>
vars == <<pages, index, flip, drag_commit, autoplay, autoplay_timer, dt, last,
          cache, loads, frame, probe>>

\* ---------------------------------------------------------------- helpers
clamp(x, a, b) == IF (IF b < x THEN b ELSE x) > a THEN (IF b < x THEN b ELSE x) ELSE a

\* FlipState(): the dataclass defaults
FlipState == [flipping |-> FALSE, direction |-> 0, t |-> 0,
              dragging |-> FALSE, drag_x |-> 0, vel |-> 0]

can_next(idx, n) == idx + 2 < n
can_prev(idx) == idx - 2 >= 0

\* start_flip with start_drag's guard: the dragging flag is not tested
start_flip_NoDragGuard(f, idx, n, direction) ==
    IF f.flipping THEN f
    ELSE IF direction = 1 /\ ~can_next(idx, n) THEN f
    ELSE IF direction = -1 /\ ~can_prev(idx) THEN f
    ELSE [flipping |-> TRUE, direction |-> direction, t |-> 0,
          dragging |-> FALSE, drag_x |-> 0, vel |-> 0]

\* start_flip(direction): the FlipState afterwards
start_flip(f, idx, n, direction) ==
    IF f.flipping \/ f.dragging THEN f
    ELSE IF direction = 1 /\ ~can_next(idx, n) THEN f
    ELSE IF direction = -1 /\ ~can_prev(idx) THEN f
    ELSE [flipping |-> TRUE, direction |-> direction, t |-> 0,
          dragging |-> FALSE, drag_x |-> 0, vel |-> 0]

\* start_drag whose hot zones include their inner boundary (>= and <=)
start_drag_WideZone(f, idx, n, mx, my) ==
    IF f.flipping THEN f
    ELSE IF can_next(idx, n) /\ collidepoint(right_rect, mx, my)
            /\ mx >= RectRight(right_rect) - HOT_ZONE
         THEN [f EXCEPT !.dragging = TRUE, !.direction = 1, !.drag_x = mx, !.vel = 0]
    ELSE IF can_prev(idx) /\ collidepoint(left_rect, mx, my)
            /\ mx <= RectLeft(left_rect) + HOT_ZONE
         THEN [f EXCEPT !.dragging = TRUE, !.direction = -1, !.drag_x = mx, !.vel = 0]
    ELSE f

\* start_drag without its early return while flipping
start_drag_NoGuard(f, idx, n, mx, my) ==
    IF can_next(idx, n) /\ collidepoint(right_rect, mx, my)
       /\ mx > RectRight(right_rect) - HOT_ZONE
    THEN [f EXCEPT !.dragging = TRUE, !.direction = 1, !.drag_x = mx, !.vel = 0]
    ELSE IF can_prev(idx) /\ collidepoint(left_rect, mx, my)
            /\ mx < RectLeft(left_rect) + HOT_ZONE
         THEN [f EXCEPT !.dragging = TRUE, !.direction = -1, !.drag_x = mx, !.vel = 0]
    ELSE f

\* start_drag(mx), my being pygame.mouse.get_pos()[1]: the FlipState afterwards
start_drag(f, idx, n, mx, my) ==
    IF f.flipping THEN f
    ELSE IF can_next(idx, n) /\ collidepoint(right_rect, mx, my)
            /\ mx > RectRight(right_rect) - HOT_ZONE
         THEN [f EXCEPT !.dragging = TRUE, !.direction = 1, !.drag_x = mx, !.vel = 0]
    ELSE IF can_prev(idx) /\ collidepoint(left_rect, mx, my)
            /\ mx < RectLeft(left_rect) + HOT_ZONE
         THEN [f EXCEPT !.dragging = TRUE, !.direction = -1, !.drag_x = mx, !.vel = 0]
    ELSE f

Max(a, b) == IF a > b THEN a ELSE b

\* drag_to_t(drag_x, direction): progress in multiples of 1/Unit
drag_to_t(drag_x, direction) ==
    IF direction = 1
    THEN clamp(RoundDiv((RectRight(right_rect) - drag_x) * Unit,
                        Max(1, RectRight(right_rect) - RectLeft(left_rect))), 0, Unit)
    ELSE clamp(RoundDiv((drag_x - RectLeft(left_rect)) * Unit,
                        Max(1, RectRight(right_rect) - RectLeft(left_rect))), 0, Unit)

\* the commit decision with a pointer on the spine counted as crossed
drag_commits_OnSpine(f) ==
    IF f.direction = 1 THEN f.drag_x <= spine_x ELSE f.drag_x >= spine_x

\* the commit decision of end_drag
drag_commits(f) ==
    IF f.direction = 1 THEN f.drag_x < spine_x ELSE f.drag_x > spine_x

\* end_drag(): the FlipState and the _drag_commit attribute afterwards
end_drag(f, dc) ==
    IF ~f.dragging THEN [flip |-> f, drag_commit |-> dc]
    ELSE [flip |-> [f EXCEPT !.dragging = FALSE, !.flipping = TRUE,
                             !.t = drag_to_t(f.drag_x, f.direction), !.vel = 0],
          drag_commit |-> IF drag_commits(f) THEN "commit" ELSE "cancel"]

\* finish_flip without the test of t: the index shifts on a cancelled spring too
finish_flip_AnyT(f, idx) ==
    [index |-> IF f.direction = 1 THEN idx + 2
               ELSE IF f.direction = -1 THEN idx - 2 ELSE idx,
     flip |-> FlipState]

\* finish_flip(): the index and the FlipState afterwards
finish_flip(f, idx) ==
    [index |-> IF f.t >= Unit
               THEN (IF f.direction = 1 THEN idx + 2
                     ELSE IF f.direction = -1 THEN idx - 2 ELSE idx)
               ELSE idx,
     flip |-> FlipState]

\* a K_END branch that jumps to the last page instead of the last even index
end_index_LastPage(idx, n) == IF n > 0 THEN n - 1 ELSE idx

\* the K_END branch of handle_event
end_index(idx, n) ==
    IF n > 0
    THEN (IF ((n - 1) \div 2) * 2 >= n THEN Max(0, n - 2) ELSE ((n - 1) \div 2) * 2)
    ELSE idx

\* dt in multiples of 1/Unit
DtUnits(d) == (Unit * d[1]) \div d[2]

\* one spring step of update(dt): velocity and progress afterwards
spring_vel(f, target, d) ==
    RoundDiv((f.vel + RoundDiv((target - f.t) * DRAG_SPRING * d[1], d[2])) * DRAG_DAMP_NUM,
             DRAG_DAMP_DEN)
spring_t(f, target, d) == f.t + RoundDiv(spring_vel(f, target, d) * d[1], d[2])

\* the completion test with the velocity comparison reversed
spring_done_FastOnly(t, v, target) ==
    Abs(target - t) < SPRING_EPS_T /\ Abs(v) > SPRING_EPS_V

spring_done(t, v, target) ==
    Abs(target - t) < SPRING_EPS_T /\ Abs(v) < SPRING_EPS_V

\* the flipping animation without the delattr(self, "_drag_commit") of a
\* completed spring
flip_step_KeepMarker(f, idx, dc, d) ==
    IF dc # "absent"
    THEN LET target == IF dc = "commit" THEN Unit ELSE 0
             v == spring_vel(f, target, d)
             t == spring_t(f, target, d)
         IN IF Abs(f.t) > TCap * Unit
            THEN [index |-> idx, flip |-> f, drag_commit |-> dc]
            ELSE IF spring_done(t, v, target)
            THEN [index |-> finish_flip([f EXCEPT !.t = target, !.vel = v], idx).index,
                  flip |-> finish_flip([f EXCEPT !.t = target, !.vel = v], idx).flip,
                  drag_commit |-> dc]
            ELSE [index |-> idx, flip |-> [f EXCEPT !.t = t, !.vel = v], drag_commit |-> dc]
    ELSE LET t == f.t + RoundDiv(DtUnits(d) * FLIP_SPEED, 10)
         IN IF t >= Unit
            THEN [index |-> finish_flip([f EXCEPT !.t = Unit], idx).index,
                  flip |-> finish_flip([f EXCEPT !.t = Unit], idx).flip,
                  drag_commit |-> dc]
            ELSE [index |-> idx, flip |-> [f EXCEPT !.t = t], drag_commit |-> dc]

\* the animation step at a rate of FLIP_SPEED / 6.0, a full flip in 0.6 s
anim_t_Fast(f, d) == f.t + RoundDiv(DtUnits(d) * FLIP_SPEED, 6)

\* self.flip.t += dt * (FLIP_SPEED / 10.0)
anim_t(f, d) == f.t + RoundDiv(DtUnits(d) * FLIP_SPEED, 10)

\* the "Flipping animation" part of update(dt), entered with f.flipping
flip_step(f, idx, dc, d) ==
    IF dc # "absent"
    THEN LET target == IF dc = "commit" THEN Unit ELSE 0
             v == spring_vel(f, target, d)
             t == spring_t(f, target, d)
         IN \* a spring that has run away beyond TCap stays where it is
            IF Abs(f.t) > TCap * Unit
            THEN [index |-> idx, flip |-> f, drag_commit |-> dc]
            ELSE IF spring_done(t, v, target)
            THEN [index |-> finish_flip([f EXCEPT !.t = target, !.vel = v], idx).index,
                  flip |-> finish_flip([f EXCEPT !.t = target, !.vel = v], idx).flip,
                  drag_commit |-> "absent"]
            ELSE [index |-> idx, flip |-> [f EXCEPT !.t = t, !.vel = v], drag_commit |-> dc]
    ELSE LET t == anim_t(f, d)
         IN IF t >= Unit
            THEN [index |-> finish_flip([f EXCEPT !.t = Unit], idx).index,
                  flip |-> finish_flip([f EXCEPT !.t = Unit], idx).flip,
                  drag_commit |-> dc]
            ELSE [index |-> idx, flip |-> [f EXCEPT !.t = t], drag_commit |-> dc]

\* update(dt) whose autoplay branch lacks the loop back to the first spread
update_NoLoop(f, idx, n, dc, ap, timer, d, mx) ==
    LET auto == ap /\ ~f.flipping /\ ~f.dragging
        timer1 == IF auto THEN timer + DtUnits(d) ELSE timer
        fire == auto /\ timer1 >= autoplay_interval
        timer2 == IF fire THEN 0 ELSE timer1
        f1 == IF fire /\ can_next(idx, n) THEN start_flip(f, idx, n, 1) ELSE f
    IN  IF f1.dragging
        THEN [index |-> idx,
              flip |-> [f1 EXCEPT !.drag_x = clamp(mx, RectLeft(left_rect), RectRight(right_rect))],
              drag_commit |-> dc, autoplay_timer |-> timer2]
        ELSE IF f1.flipping
        THEN [index |-> flip_step(f1, idx, dc, d).index,
              flip |-> flip_step(f1, idx, dc, d).flip,
              drag_commit |-> flip_step(f1, idx, dc, d).drag_commit,
              autoplay_timer |-> timer2]
        ELSE [index |-> idx, flip |-> f1, drag_commit |-> dc, autoplay_timer |-> timer2]

\* update(dt), mx being pygame.mouse.get_pos()[0]
update(f, idx, n, dc, ap, timer, d, mx) ==
    LET auto == ap /\ ~f.flipping /\ ~f.dragging
        timer1 == IF auto THEN timer + DtUnits(d) ELSE timer
        fire == auto /\ timer1 >= autoplay_interval
        timer2 == IF fire THEN 0 ELSE timer1
        f1 == IF fire /\ can_next(idx, n) THEN start_flip(f, idx, n, 1) ELSE f
        idx1 == IF fire /\ ~can_next(idx, n) THEN 0 ELSE idx
    IN  IF f1.dragging
        THEN [index |-> idx1,
              flip |-> [f1 EXCEPT !.drag_x = clamp(mx, RectLeft(left_rect), RectRight(right_rect))],
              drag_commit |-> dc, autoplay_timer |-> timer2]
        ELSE IF f1.flipping
        THEN [index |-> flip_step(f1, idx1, dc, d).index,
              flip |-> flip_step(f1, idx1, dc, d).flip,
              drag_commit |-> flip_step(f1, idx1, dc, d).drag_commit,
              autoplay_timer |-> timer2]
        ELSE [index |-> idx1, flip |-> f1, drag_commit |-> dc, autoplay_timer |-> timer2]

\* ------------------------------------------------------------ page cache
page_size == <<page_w, page_h>>

\* the surface load_and_process_image(path, size) returns
load_and_process_image(path, size) == [blank |-> FALSE, img |-> path, size |-> size]

\* the blank Surface((page_w, page_h)) filled with PAPER_COLOR
BlankPage == [blank |-> TRUE, img |-> 0, size |-> page_size]

\* PageCache.get that loads and returns the surface but forgets to store it
PageCache_get_NoStore(c, ld, path) ==
    LET key == <<path, page_size>>
    IN  IF key \in DOMAIN c
        THEN [cache |-> c, loads |-> ld, surf |-> c[key], access |-> "hit"]
        ELSE [cache |-> c,
              loads |-> [ld EXCEPT ![path] = @ + 1],
              surf |-> load_and_process_image(path, page_size),
              access |-> "load"]

\* PageCache.get(path) on cache c; ld counts the loader's calls
PageCache_get(c, ld, path) ==
    LET key == <<path, page_size>>
    IN  IF key \in DOMAIN c
        THEN [cache |-> c, loads |-> ld, surf |-> c[key], access |-> "hit"]
        ELSE [cache |-> (key :> load_and_process_image(path, page_size)) @@ c,
              loads |-> [ld EXCEPT ![path] = @ + 1],
              surf |-> load_and_process_image(path, page_size),
              access |-> "load"]

\* get_page_surface without the idx < 0 test: a negative idx counts from the
\* end of the list, as Python's pages[idx] does
get_page_surface_NoLowerBound(c, ld, pgs, idx) ==
    IF idx >= Len(pgs) \/ idx + Len(pgs) < 0
    THEN [cache |-> c, loads |-> ld, surf |-> BlankPage, access |-> "none"]
    ELSE PageCache_get(c, ld, pgs[(IF idx < 0 THEN idx + Len(pgs) ELSE idx) + 1])

\* get_page_surface(idx); pgs[idx + 1] is Python's pages[idx]
get_page_surface(c, ld, pgs, idx) ==
    IF idx < 0 \/ idx >= Len(pgs)
    THEN [cache |-> c, loads |-> ld, surf |-> BlankPage, access |-> "none"]
    ELSE PageCache_get(c, ld, pgs[idx + 1])

\* the get_page_surface calls of one draw_flip, in program order; want is a
\* sequence of <<role, idx>>
RECURSIVE get_page_surfaces(_, _, _, _)
get_page_surfaces(c, ld, pgs, want) ==
    IF want = <<>>
    THEN [cache |-> c, loads |-> ld, reqs |-> <<>>]
    ELSE LET g == get_page_surface(c, ld, pgs, Head(want)[2])
             rest == get_page_surfaces(g.cache, g.loads, pgs, Tail(want))
         IN [cache |-> rest.cache, loads |-> rest.loads,
             reqs |-> <<[role |-> Head(want)[1], idx |-> Head(want)[2],
                         surf |-> g.surf, access |-> g.access]>> \o rest.reqs]

\* ------------------------------------------------------------- draw_flip
\* Progress is drawn at a resolution of 1/Milli, eased progress at 1/Micro,
\* cosines at 1/CosScale.
Milli == Unit \div 60
Micro == Milli * Milli
CosScale == 10 * Milli

\* draw_flip's t = clamp(self.flip.t, 0.0, 1.0), in 1/Milli
draw_t(t) == RoundDiv(clamp(t, 0, Unit) * Milli, Unit)

\* an easing that is the identity
ease_linear(tm) == clamp(tm, 0, Milli) * Milli

\* ease_out_cubic(t) = 1 - (1 - t) ** 3, t in 1/Milli, result in 1/Micro
ease_out_cubic(tm) ==
    LET u == Milli - clamp(tm, 0, Milli)
    IN  RoundDiv(Milli * Milli * Milli - u * u * u, Milli)

\* smoothstep(t) = t * t * (3 - 2 * t), t in 1/Milli, result in 1/Micro
smoothstep(tm) ==
    LET c == clamp(tm, 0, Milli)
    IN  RoundDiv(c * c * (3 * Milli - 2 * c), Milli)

\* math.cos(et * math.pi) for et in [0, 1] given in 1/Micro, result in
\* 1/CosScale: cos(pi * et) = -cos(pi * (1 - et)) brings the angle into
\* [0, pi/2], where the series 1 - y^2/2 + y^4/24 - y^6/720 + y^8/40320 is
\* evaluated in Horner form
cos_pi(et) ==
    LET m == IF 2 * et <= Micro THEN et ELSE Micro - et
        y == (m * 3142) \div (100 * Milli)
        y2 == RoundDiv(y * y, CosScale)
        a3 == CosScale - RoundDiv(y2, 56)
        a2 == CosScale - RoundDiv(y2 * a3, 30 * CosScale)
        a1 == CosScale - RoundDiv(y2 * a2, 12 * CosScale)
        c == CosScale - RoundDiv(y2 * a1, 2 * CosScale)
    IN  IF 2 * et <= Micro THEN c ELSE 0 - c

\* leaf_w = max(8, int(page_w * abs(cos(et * pi)))) for progress t in 1/Unit
leaf_width(t) ==
    Max(8, (page_w * Abs(cos_pi(ease_out_cubic(draw_t(t))))) \div CosScale)

\* show_front = angle < pi/2
show_front(t) == 2 * ease_out_cubic(draw_t(t)) < Micro

\* sheen = int(lerp(0, 85, smoothstep(1 - abs(0.5 - t) * 2)))
sheen(t) ==
    (85 * smoothstep(Milli - 2 * Abs(Milli \div 2 - draw_t(t)))) \div Micro

\* what draw_flip draws when no frame has been drawn yet
NoFrame ==
    [active |-> FALSE, index |-> 0, direction |-> 0, reqs |-> <<>>,
     layers |-> <<>>, leaf_w |-> 0, face |-> "none"]

\* the rest of draw_flip's Prev branch after the cast shadow: the leaf, the
\* sheen if any, then the edge shadow bands on the two static pages
draw_flip_prev_rest(t) ==
    <<"leaf">> \o (IF sheen(t) > 0 THEN <<"sheen">> ELSE <<>>) \o <<"band", "band">>

\* draw_flip(): the page requests and the screen operations of one frame, in
\* program order, and the cache after them
draw_flip(c, ld, pgs, idx, f) ==
    LET left_idx == idx
        right_idx == idx + 1
        want == IF ~(f.flipping \/ f.dragging)
                THEN << <<"left", idx>>, <<"right", idx + 1>> >>
                ELSE IF f.direction = 1
                THEN << <<"static", left_idx>>, <<"under", right_idx + 1>>,
                        <<"front", right_idx>>, <<"back", left_idx + 2>> >>
                ELSE << <<"static", right_idx>>, <<"under", left_idx - 1>>,
                        <<"front", left_idx>>, <<"back", right_idx - 2>> >>
        g == get_page_surfaces(c, ld, pgs, want)
        layers == IF ~(f.flipping \/ f.dragging)
                  THEN <<"left", "right", "band", "band">>
                  ELSE IF f.direction = 1
                  THEN <<"static", "under", "cast_shadow", "band", "band", "leaf">>
                       \o (IF sheen(f.t) > 0 THEN <<"sheen">> ELSE <<>>)
                  ELSE <<"under", "static", "cast_shadow">> \o draw_flip_prev_rest(f.t)
    IN  [cache |-> g.cache, loads |-> g.loads,
         frame |-> IF ~(f.flipping \/ f.dragging)
                   THEN [active |-> FALSE, index |-> idx, direction |-> f.direction,
                         reqs |-> g.reqs, layers |-> layers, leaf_w |-> 0, face |-> "none"]
                   ELSE [active |-> TRUE, index |-> idx, direction |-> f.direction,
                         reqs |-> g.reqs, layers |-> layers,
                         leaf_w |-> leaf_width(f.t),
                         face |-> IF show_front(f.t) THEN "front" ELSE "back"]]

\* the mode the spec's state machine is in
Mode ==
    IF flip.dragging THEN "Dragging"
    ELSE IF flip.flipping THEN (IF drag_commit # "absent" THEN "Springing" ELSE "Animating")
    ELSE "Idle"

\* ------------------------------------------------------------------ Init
Init ==
    /\ pages \in {[i \in 1..n |-> i] : n \in 0..MaxPages}
    /\ index = 0
    /\ flip = FlipState
    /\ drag_commit = "absent"
    /\ autoplay = FALSE
    /\ autoplay_timer = 0
    /\ dt \in DTs
    /\ last = [op |-> "init", x |-> 0, y |-> 0, from |-> "Idle"]
    /\ cache = <<>>
    /\ loads = [p \in DOMAIN pages |-> 0]
    /\ frame = NoFrame
    /\ probe = [t |-> 0, w |-> leaf_width(0), prev_t |-> 0, prev_w |-> leaf_width(0)]

\* --------------------------------------------------------------- actions
\* KEYDOWN K_RIGHT / K_d / K_SPACE (direction 1), K_LEFT / K_a / K_BACKSPACE (-1)
KeyFlip(direction) ==
    /\ flip' = start_flip(flip, index, Len(pages), direction)
    /\ last' = [op |-> "start_flip", x |-> direction, y |-> 0, from |-> Mode]
    /\ UNCHANGED <<cache, loads, frame, probe, pages, index, drag_commit, autoplay, autoplay_timer, dt>>

KeyHome ==
    /\ index' = 0
    /\ last' = [op |-> "home", x |-> 0, y |-> 0, from |-> Mode]
    /\ UNCHANGED <<cache, loads, frame, probe, pages, flip, drag_commit, autoplay, autoplay_timer, dt>>

KeyEnd ==
    /\ index' = end_index(index, Len(pages))
    /\ last' = [op |-> "end", x |-> 0, y |-> 0, from |-> Mode]
    /\ UNCHANGED <<cache, loads, frame, probe, pages, flip, drag_commit, autoplay, autoplay_timer, dt>>

\* KEYDOWN K_p
ToggleAutoplay ==
    /\ autoplay' = ~autoplay
    /\ autoplay_timer' = 0
    /\ last' = [op |-> "autoplay", x |-> 0, y |-> 0, from |-> Mode]
    /\ UNCHANGED <<cache, loads, frame, probe, pages, index, flip, drag_commit, dt>>

KeyP ==
    /\ dt \in AutoplayDTs
    /\ ToggleAutoplay

MouseDown(mx, my) ==
    /\ flip' = start_drag(flip, index, Len(pages), mx, my)
    /\ last' = [op |-> "start_drag", x |-> mx, y |-> my, from |-> Mode]
    /\ UNCHANGED <<cache, loads, frame, probe, pages, index, drag_commit, autoplay, autoplay_timer, dt>>

MouseUp ==
    /\ flip' = end_drag(flip, drag_commit).flip
    /\ drag_commit' = end_drag(flip, drag_commit).drag_commit
    /\ last' = [op |-> "end_drag", x |-> 0, y |-> 0, from |-> Mode]
    /\ UNCHANGED <<cache, loads, frame, probe, pages, index, autoplay, autoplay_timer, dt>>

Update(mx) ==
    LET r == update(flip, index, Len(pages), drag_commit, autoplay, autoplay_timer, dt, mx)
    IN  /\ index' = r.index
        /\ flip' = r.flip
        /\ drag_commit' = r.drag_commit
        /\ autoplay_timer' = r.autoplay_timer
        /\ last' = [op |-> "update", x |-> IF flip.dragging THEN mx ELSE 0, y |-> 0, from |-> Mode]
        /\ UNCHANGED <<cache, loads, frame, probe, pages, autoplay, dt>>

Next ==
    \/ \E d \in Directions : KeyFlip(d)
    \/ KeyHome
    \/ KeyEnd
    \/ KeyP
    \/ \E p \in DownPoints : MouseDown(p[1], p[2])
    \/ MouseUp
    \/ \E mx \in (IF flip.dragging THEN MoveXs ELSE {0}) : Update(mx)

Spec == Init /\ [][Next]_vars

\* The frame loop never stops calling update(dt).
Tick == \E mx \in MoveXs : Update(mx)
\* Pointer input and frames only: the keys write neither FlipState.t,
\* FlipState.vel nor _drag_commit, so they take no part in a spring episode.
PointerNext ==
    \/ \E p \in DownPoints : MouseDown(p[1], p[2])
    \/ MouseUp
    \/ \E mx \in (IF flip.dragging THEN MoveXs ELSE {0}) : Update(mx)
SpringSpec == Init /\ [][PointerNext]_vars /\ WF_vars(Tick)

\* draw_flip() on the current state
Draw ==
    LET r == draw_flip(cache, loads, pages, index, flip)
    IN  /\ cache' = r.cache
        /\ loads' = r.loads
        /\ frame' = r.frame
        /\ last' = [op |-> "draw", x |-> 0, y |-> 0, from |-> Mode]
        /\ UNCHANGED <<pages, index, flip, drag_commit, autoplay, autoplay_timer, dt, probe>>

\* Key presses, pointer events, frames advanced with a coarse step, and drawing.
DrawInit == Init /\ dt = <<1, 2>>
DrawDownPoints == {<<1080, 300>>, <<160, 300>>}
DrawNext ==
    \/ \E d \in Directions : KeyFlip(d)
    \/ KeyHome
    \/ KeyEnd
    \/ \E p \in DrawDownPoints : MouseDown(p[1], p[2])
    \/ MouseUp
    \/ Update(0)
    \/ Draw
DrawSpec == DrawInit /\ [][DrawNext]_vars

\* The leaf width of draw_flip evaluated at progress k / ProgressSteps.
LeafStep ==
    \E k \in 0..ProgressSteps :
        /\ probe' = [t |-> (k * Unit) \div ProgressSteps,
                     w |-> leaf_width((k * Unit) \div ProgressSteps),
                     prev_t |-> probe.t, prev_w |-> probe.w]
        /\ UNCHANGED <<svars, cache, loads, frame>>
LeafSpec == Init /\ [][LeafStep]_vars

\* Autoplay switched on once and frames, no other input.
AutoNext ==
    \/ ~autoplay /\ ToggleAutoplay
    \/ Update(0)
AutoSpec == Init /\ [][AutoNext]_vars /\ WF_vars(Tick)

\* ================================================================ claims
NPages == Len(pages)
SmallDTs == {<<1, FPS>>, <<2, FPS>>}
Animating(d) == [flipping |-> TRUE, direction |-> d, t |-> 0,
                 dragging |-> FALSE, drag_x |-> 0, vel |-> 0]
\* the pointer is on the page r and within HOT_ZONE of its outer edge
InRightHotZone(px, py) ==
    /\ RectRight(right_rect) - HOT_ZONE < px /\ px < RectRight(right_rect)
    /\ right_rect.y <= py /\ py < right_rect.y + right_rect.h
InLeftHotZone(px, py) ==
    /\ RectLeft(left_rect) <= px /\ px < RectLeft(left_rect) + HOT_ZONE
    /\ left_rect.y <= py /\ py < left_rect.y + left_rect.h

\* C1: in every reachable state 0 <= index, and index < len(pages) when the
\* book is non-empty, also when home/end arrive during an active episode.
C1_IndexInRange ==
    /\ 0 <= index
    /\ (NPages > 0 => index < NPages)

\* C2: start_flip(direction) enters Animating with progress 0 exactly when the
\* machine is Idle and a page-pair exists in that direction; every other call
\* leaves the FlipState and the index unchanged.
C2_StartFlipGuarded ==
    [][last'.op = "start_flip" =>
        IF Mode = "Idle"
           /\ ((last'.x = 1 /\ index + 2 < NPages) \/ (last'.x = -1 /\ index >= 2))
        THEN flip' = Animating(last'.x) /\ Mode' = "Animating" /\ index' = index
        ELSE flip' = flip /\ index' = index /\ drag_commit' = drag_commit]_vars

\* C2 witness: a Prev flip was accepted from Idle
C2_Witness ==
    /\ last.op = "start_flip" /\ last.x = -1 /\ last.from = "Idle"
    /\ Mode = "Animating" /\ flip.t = 0 /\ flip.direction = -1

\* C3: the update that completes an episode shifts the index by +2 (Next) or
\* -2 (Prev) when the episode is Animating or a committed spring, leaves it
\* unchanged when the spring was cancelled, and leaves the machine Idle.
C3_CompletionShiftsIndex ==
    [][(Mode \in {"Animating", "Springing"} /\ Mode' = "Idle") =>
        /\ flip' = FlipState
        /\ drag_commit' = "absent"
        /\ index' = IF Mode = "Animating" \/ drag_commit = "commit"
                    THEN (IF flip.direction = 1 THEN index + 2 ELSE index - 2)
                    ELSE index]_vars

\* C3 witness: a cancelled spring has just completed, after an earlier flip
\* had moved the index to 2
C3_Witness ==
    /\ last.op = "update" /\ last.from = "Springing" /\ Mode = "Idle"
    /\ index = 2 /\ dt = <<1, FPS>> /\ NPages = 3

\* C4: a pointer-down outside Idle (Animating, Springing or Dragging) leaves
\* every FlipState field unchanged.
C4_StartDragIdleOnly ==
    [][(last'.op = "start_drag" /\ Mode # "Idle") => flip' = flip]_vars

\* C5: end_drag in Dragging enters Springing with velocity 0 and commits iff
\* the pointer crossed the spine in the direction of travel (a pointer on the
\* spine cancels); outside Dragging it changes nothing.
C5_EndDragDecides ==
    [][last'.op = "end_drag" =>
        IF Mode = "Dragging"
        THEN /\ Mode' = "Springing"
             /\ flip'.vel = 0
             /\ flip'.direction = flip.direction
             /\ drag_commit' =
                  IF (flip.direction = 1 /\ flip.drag_x < spine_x)
                     \/ (flip.direction = -1 /\ flip.drag_x > spine_x)
                  THEN "commit" ELSE "cancel"
        ELSE flip' = flip /\ drag_commit' = drag_commit]_vars

\* C5 witness: a drag was released with the pointer exactly on the spine
C5_Witness ==
    /\ last.op = "end_drag" /\ last.from = "Dragging" /\ Mode = "Springing"
    /\ flip.drag_x = spine_x /\ drag_commit = "cancel"

\* C6: after every drag update the pointer x is clamped to the pages' span and
\* progress equals the normalized distance of the clamped pointer from its
\* starting edge.
C6_ProgressTracksPointer ==
    (Mode = "Dragging" /\ last.op = "update") =>
        /\ flip.drag_x = clamp(last.x, RectLeft(left_rect), RectRight(right_rect))
        /\ flip.t = drag_to_t(flip.drag_x, flip.direction)

\* C7: progress lies in [0, 1] in every state, whatever the mode and the step.
C7_ProgressInUnitInterval == 0 <= flip.t /\ flip.t <= Unit

C9_StartDragHotZone ==
    [][(last'.op = "start_drag" /\ Mode = "Idle") =>
        IF index + 2 < NPages /\ InRightHotZone(last'.x, last'.y)
        THEN flip' = [flip EXCEPT !.dragging = TRUE, !.direction = 1,
                                  !.drag_x = last'.x]
        ELSE IF index >= 2 /\ InLeftHotZone(last'.x, last'.y)
        THEN flip' = [flip EXCEPT !.dragging = TRUE, !.direction = -1,
                                  !.drag_x = last'.x]
        ELSE flip' = flip]_vars

\* C9 witness: a Prev drag was accepted in the left hot zone
C9_Witness ==
    /\ last.op = "start_drag" /\ last.from = "Idle" /\ Mode = "Dragging"
    /\ flip.direction = -1 /\ flip.drag_x = last.x /\ InLeftHotZone(last.x, last.y)

\* C10: flipping and dragging are never both set, the spring marker exists
\* only while flipping, and the mode only moves Idle -> Animating | Dragging,
\* Dragging -> Springing, Animating | Springing -> Idle.
ModeMoves == {<<"Idle", "Animating">>, <<"Idle", "Dragging">>,
              <<"Dragging", "Springing">>,
              <<"Animating", "Idle">>, <<"Springing", "Idle">>}
C10_OneModeAtATime ==
    /\ [](~(flip.flipping /\ flip.dragging))
    /\ [][Mode' = Mode \/ <<Mode, Mode'>> \in ModeMoves]_vars

\* C10 witness: a drag has been released into a spring
C10_Witness ==
    /\ last.from = "Dragging" /\ Mode = "Springing"
    /\ flip.flipping /\ ~flip.dragging

\* C11: when the idle autoplay timer reaches the interval, update starts a
\* Next flip if a further page-pair exists and otherwise sets index to 0
\* without flipping; with autoplay and frames only, the index moves by +2 or
\* back to 0 from the last spread, stays in range, and is 0 again and again.
C11_AutoplayLoops ==
    /\ []<>(index = 0)
    /\ [](0 <= index /\ (NPages > 0 => index < NPages))
    /\ [][(autoplay /\ Mode = "Idle" /\ last'.op = "update"
             /\ autoplay_timer + DtUnits(dt) >= autoplay_interval) =>
            /\ autoplay_timer' = 0
            /\ IF index + 2 < NPages
               THEN Mode' = "Animating" /\ flip'.direction = 1 /\ index' = index
               ELSE Mode' = "Idle" /\ index' = 0]_vars
    /\ [][\/ index' = index
          \/ index' = index + 2
          \/ index' = 0 /\ ~(index + 2 < NPages)]_vars

\* C11 witness: at 1/60 s the autoplay of a 4-page book has just looped back
\* from the last spread
C11_Witness ==
    /\ autoplay /\ last.op = "update" /\ last.from = "Idle" /\ Mode = "Idle"
    /\ autoplay_timer = 0 /\ index = 0 /\ NPages = 4 /\ dt = <<1, FPS>>

\* C12: over any sequence of draws, load_and_process_image is called at most
\* once per (path, page size) key, exactly for the keys the cache holds; a get
\* for a key already stored returns the stored surface without loading; an
\* entry, once stored, is never removed or replaced.
C12_LoadOncePerKey ==
    /\ [](\A p \in DOMAIN loads :
            /\ loads[p] <= 1
            /\ loads[p] = 1 <=> <<p, page_size>> \in DOMAIN cache)
    /\ [][last'.op = "draw" =>
            \A i \in DOMAIN frame'.reqs :
                LET r == frame'.reqs[i]
                    key == <<r.surf.img, page_size>>
                IN  (~r.surf.blank /\ key \in DOMAIN cache) =>
                        (r.access = "hit" /\ r.surf = cache[key])]_vars
    /\ [][\A k \in DOMAIN cache : k \in DOMAIN cache' /\ cache'[k] = cache[k]]_vars

\* C12 witness: a frame served a page from the cache while the cache holds
\* every page of a 4-page book
C12_Witness ==
    /\ last.op = "draw" /\ NPages = 4
    /\ \E i \in DOMAIN frame.reqs : frame.reqs[i].access = "hit"
    /\ \A p \in DOMAIN loads : loads[p] = 1

\* C13: every get_page_surface(idx) call of a drawn frame with idx outside
\* [0, len(pages)) returns the blank paper page without touching the page
\* list or the cache, negative idx and the neighbours index-1, index+2
\* included; a call with idx inside the range returns that page's surface.
C13_BlankOutsideRange ==
    \A i \in DOMAIN frame.reqs :
        LET r == frame.reqs[i]
        IN  IF r.idx < 0 \/ r.idx >= NPages
            THEN r.surf = BlankPage /\ r.access = "none"
            ELSE ~r.surf.blank /\ r.surf.img = pages[r.idx + 1] /\ r.access # "none"

\* C13 witness: one frame of a flip asked for a negative index and got the
\* blank page, and for a page of the book and got it from the cache
C13_Witness ==
    /\ frame.active
    /\ \E i \in DOMAIN frame.reqs :
          frame.reqs[i].idx < 0 /\ frame.reqs[i].surf = BlankPage
    /\ \E j \in DOMAIN frame.reqs : frame.reqs[j].access = "hit"

\* the progress at which the eased progress is 1/2: 1 - 0.5^(1/3) = 0.2063
LeafTurn == (2063 * Unit) \div 10000

\* C14 as stated: the leaf width does not grow while progress rises within
\* [0, 0.5], does not shrink while it rises within [0.5, 1], and is smallest
\* at progress 0.5.
C14_LeafNarrowestAtHalf ==
    /\ (probe.prev_t <= probe.t /\ 2 * probe.t <= Unit) => probe.w <= probe.prev_w
    /\ (probe.prev_t <= probe.t /\ 2 * probe.prev_t >= Unit) => probe.w >= probe.prev_w
    /\ probe.w >= leaf_width(Unit \div 2)

\* C14 amended: the leaf width does not grow while progress rises up to
\* 1 - 0.5^(1/3) (eased progress 1/2), does not shrink while it rises beyond,
\* and is smallest there.
C14_LeafNarrowestAtEasedHalf ==
    /\ (probe.prev_t <= probe.t /\ probe.t <= LeafTurn) => probe.w <= probe.prev_w
    /\ (probe.prev_t <= probe.t /\ probe.prev_t >= LeafTurn) => probe.w >= probe.prev_w
    /\ probe.w >= leaf_width(LeafTurn)

\* C14 witness: between progress 0.2063 and 0.5 the leaf has grown wider
C14_Witness ==
    /\ LeafTurn <= probe.prev_t /\ probe.prev_t < probe.t /\ 2 * probe.t <= Unit
    /\ probe.w > probe.prev_w

\* C15: every frame drawn while a flip is active issues its drawing
\* operations in the order revealed-under page, static page, cast shadow,
\* leaf, sheen (when there is one), and the two edge shadow bands last.
C15_LayersInZOrder ==
    frame.active =>
        frame.layers \in {<<"under", "static", "cast_shadow", "leaf", "sheen", "band", "band">>,
                          <<"under", "static", "cast_shadow", "leaf", "band", "band">>}

\* C16: while a flip episode lasts, update never moves progress away from its
\* end value: it does not decrease in Animating or in a committed Springing
\* episode and does not increase in a cancelled one.
C16_ProgressMonotone ==
    [][(last'.op = "update" /\ Mode' = Mode) =>
          /\ Mode = "Animating" => flip'.t >= flip.t
          /\ (Mode = "Springing" /\ drag_commit = "commit") => flip'.t >= flip.t
          /\ (Mode = "Springing" /\ drag_commit = "cancel") => flip'.t <= flip.t]_vars

\* C17: in every frame drawn during a flip the revealed-under page and the
\* leaf's back face are the pages of the spread after commit: index+3 and
\* index+2 for a Next flip, index-2 and index-1 for a Prev flip.
C17_PagesMatchCommittedSpread ==
    frame.active =>
        \A i \in DOMAIN frame.reqs :
            LET r == frame.reqs[i]
            IN  /\ r.role = "under" =>
                     r.idx = (IF frame.direction = 1 THEN frame.index + 3 ELSE frame.index - 2)
                /\ r.role = "back" =>
                     r.idx = (IF frame.direction = 1 THEN frame.index + 2 ELSE frame.index - 1)

\* C18 as stated: an Animating update adds dt * rate to progress and
\* completes the flip when progress reaches 1, at a rate that fills a flip in
\* about 0.6 s (between 0.5 s and 0.7 s) of accumulated dt.
C18_FullFlipTakesSixTenths ==
    [][(Mode = "Animating" /\ last'.op = "update") =>
          IF Mode' = "Animating"
          THEN /\ 10 * DtUnits(dt) <= 7 * (flip'.t - flip.t)
               /\ 5 * (flip'.t - flip.t) <= 10 * DtUnits(dt)
          ELSE Mode' = "Idle"]_vars

\* C18 amended: an Animating update adds exactly dt to progress (rate
\* FLIP_SPEED / 10 = 1 per second) and completes the flip exactly when
\* progress reaches 1; at 1/60 s progress is k/60 after k updates, so a full
\* flip takes 60 updates, 1.0 s of accumulated dt.
C18_FullFlipTakesOneSecond ==
    /\ [][(Mode = "Animating" /\ last'.op = "update") =>
            IF flip.t + DtUnits(dt) >= Unit
            THEN Mode' = "Idle"
            ELSE Mode' = "Animating" /\ flip'.t = flip.t + DtUnits(dt)]_vars
    /\ []((Mode = "Animating" /\ dt = <<1, FPS>>) =>
            \E k \in 0..(FPS - 1) : flip.t * FPS = k * Unit)

\* C18 witness: at 1/60 s a key flip is one update away from completion after
\* 59 updates, 59/60 s
C18_Witness ==
    /\ Mode = "Animating" /\ dt = <<1, FPS>> /\ last.op = "update"
    /\ flip.t * FPS = (FPS - 1) * Unit

\* C19: the index is even in every reachable state; it changes only by +2 or
\* -2 when an update completes a flip, to 0 on HOME or on the autoplay loop,
\* and to the last even index on END; after END pressed in Idle on a
\* non-empty book the index is a valid page index and can_next() is false.
C19_IndexEven ==
    /\ [](index % 2 = 0)
    /\ [][index' # index =>
            \/ /\ last'.op = "update" /\ Mode' = "Idle"
               /\ \/ Mode # "Idle" /\ index' \in {index + 2, index - 2}
                  \/ Mode = "Idle" /\ autoplay /\ index' = 0
            \/ last'.op = "home" /\ index' = 0
            \/ last'.op = "end" /\ index' = ((NPages - 1) \div 2) * 2]_vars
    /\ [][(last'.op = "end" /\ Mode = "Idle" /\ NPages > 0) =>
            /\ 0 <= index' /\ index' < NPages
            /\ ~can_next(index', NPages)]_vars

\* C19 witness: END pressed in Idle on a 4-page book has moved the index from
\* 0 to 2
C19_Witness ==
    /\ last.op = "end" /\ last.from = "Idle" /\ Mode = "Idle"
    /\ NPages = 4 /\ index = 2

\* C20: _drag_commit exists only while a released drag is springing: it is
\* set only by end_drag ending a drag, removed only by the update that
\* completes the spring, and absent in Idle, Dragging and Animating; a flip
\* accepted by start_flip is Animating and every update of it takes the
\* linear branch, which leaves the velocity alone.
C20_DragCommitOnlyInSpring ==
    /\ [](drag_commit # "absent" => (flip.flipping /\ ~flip.dragging))
    /\ [][(drag_commit = "absent" /\ drag_commit' # "absent") =>
            (last'.op = "end_drag" /\ last'.from = "Dragging")]_vars
    /\ [][(drag_commit # "absent" /\ drag_commit' = "absent") =>
            (last'.op = "update" /\ Mode' = "Idle")]_vars
    /\ [][(last'.op = "start_flip" /\ flip' # flip) =>
            (Mode' = "Animating" /\ drag_commit' = "absent")]_vars
    /\ [][(Mode = "Animating" /\ last'.op = "update" /\ Mode' # "Idle") =>
            (Mode' = "Animating" /\ flip'.vel = flip.vel /\ flip'.t = anim_t(flip, dt))]_vars

\* C20 witness: the update that completed a cancelled spring has removed the
\* marker
C20_Witness ==
    /\ last.op = "update" /\ last.from = "Springing" /\ Mode = "Idle"
    /\ drag_commit = "absent" /\ index = 0 /\ dt = <<2, FPS>>

====
